---- MODULE Spec2Model ----
(***************************************************************************)
(* Certificate rotation of the CAPR planner                                *)
(* (pkg/capr/planner/certificaterotation.go).                              *)
(*                                                                         *)
(* One reconciliation pass of Planner.rotateCertificates is a sequence of  *)
(* steps separated by the blocking calls it makes (findInitNode,           *)
(* assignAndCheckPlan, pauseCAPICluster); pc is the position of the pass.  *)
(* Passes of one cluster are serial.  Between passes the caller persists   *)
(* the returned status and the cluster's spec may change.                  *)
(***************************************************************************)
EXTENDS Naturals, Sequences, FiniteSets

\* ------------------------------------------------------------------ bounds

\* Largest rotation generation the operator requests.
MaxGen == 2

\* Largest number of entries of the cluster plan.
MaxNodes == 3

\* Calls to assignAndCheckPlan per node and generation are counted up to
\* this number ("MaxCalls or more").
MaxCalls == 2

\* ------------------------------------------------------------- data model

\* controlPlane.Spec.RotateCertificates == nil: a request that is not set
Nil == [ set |-> FALSE, Generation |-> 0, Services |-> <<>> ]

Generations == 0..MaxGen

\* Values of RotateCertificates.Services the model draws from.
ServiceLists ==
    { <<>>, <<"etcd">>, <<"bogus">> }

\* Role sets of the entries collect(clusterPlan, anyRole) yields.
RoleSets ==
    { {"worker"}, {"etcd"}, {"controlplane"} }

RECURSIVE SeqsUpTo(_, _)
SeqsUpTo(S, n) ==
    IF n = 0 THEN { <<>> }
    ELSE LET shorter == SeqsUpTo(S, n - 1)
         IN  shorter \cup { Append(s, x) : s \in { t \in shorter : Len(t) = n - 1 }, x \in S }

Inventories == SeqsUpTo(RoleSets, MaxNodes)

Rotations ==
    { Nil } \cup [ set : {TRUE}, Generation : Generations, Services : ServiceLists ]

\* The error values rotateCertificates returns.
NoError        == [ kind |-> "nil",     msg |-> "" ]
InitNodeError  == [ kind |-> "error",   msg |-> "findInitNode" ]
ComposeError   == [ kind |-> "error",   msg |-> "generatePlanWithConfigFiles" ]
AssignError    == [ kind |-> "error",   msg |-> "assignAndCheckPlan" ]
PauseError     == [ kind |-> "error",   msg |-> "pauseCAPICluster" ]

errWaiting(msg) == [ kind |-> "waiting", msg |-> msg ]

\* The calls a pass makes, as the pass's log records them.
ComposeCall(n, ok) ==
    [ op |-> "rotateCertificatesPlan", node |-> n, paused |-> FALSE, ok |-> ok ]
AssignCall(n, ok) ==
    [ op |-> "assignAndCheckPlan", node |-> n, paused |-> FALSE, ok |-> ok ]
PauseCall(paused, ok) ==
    [ op |-> "pauseCAPICluster", node |-> 0, paused |-> paused, ok |-> ok ]

\* ------------------------------------------------------------------ state

VARIABLES
    controlPlane,   \* the RKEControlPlane: Spec.RotateCertificates and Status
    clusterPlan,    \* the node inventory: a sequence of role sets
    capiPaused,     \* the CAPI cluster's pause flag
    pc,             \* position of the pass: idle, loop, assigning, done
    idx,            \* index of the entry the loop of the pass is at
    inStatus,       \* the status the pass was called with
    status,         \* the pass's local status value
    result,         \* what the pass returned: [status, err]
    pausedAtStart,  \* the pause flag when the pass began
    initNode,       \* what findInitNode answered in this pass
    calls,          \* the calls of this pass that have returned, in order:
                    \* rotateCertificatesPlan, assignAndCheckPlan and
                    \* pauseCAPICluster, each with its argument and outcome
    assignCount,    \* per entry, calls of assignAndCheckPlan for the
                    \* requested generation over all passes (up to MaxCalls)
    planInput,      \* the arguments of a call of one of the pure functions
                    \* (shouldRotateEntry, rotationContainsService,
                    \* rotateCertificatesPlan) and its collaborators' answers
    planOutput,     \* what that call returned
    node,           \* one node's disk: the runtime installed on it and the
                    \* generation file the rotation script keeps
    script,         \* the execution of the rotation script on the node
    runs            \* the executions that have ended, in order

vars == << controlPlane, clusterPlan, capiPaused, pc, idx, inStatus, status,
           result, pausedAtStart, initNode, calls, assignCount,
           planInput, planOutput, node, script, runs >>

\* The state of the reconciliation passes, and of the calls of the pure
\* functions taken alone.
nodeVars == << node, script, runs >>

composerVars == << planInput, planOutput, nodeVars >>

passVars == << idx, inStatus, status, result, pausedAtStart, initNode,
               calls >>

rotation == controlPlane.RotateCertificates

NoResult == [ status |-> [ Initialized |-> FALSE, CertificateRotationGeneration |-> 0 ],
              err |-> NoError ]

NoCalls == [ i \in 1..MaxNodes |-> 0 ]

\* -------------------------------------------------------- pure functions

isWorker(entry)       == "worker" \in entry
isControlPlane(entry) == "controlplane" \in entry
isEtcd(entry)         == "etcd" \in entry

\* shouldRotate with the staleness test as "older than requested".
shouldRotate_OnlyNewer(cp) ==
    IF ~cp.RotateCertificates.set THEN FALSE
    ELSE IF cp.Status.Initialized # TRUE THEN FALSE
    ELSE cp.Status.CertificateRotationGeneration < cp.RotateCertificates.Generation

\* shouldRotate without the staleness test.
shouldRotate_IgnoresGeneration(cp) ==
    IF ~cp.RotateCertificates.set THEN FALSE
    ELSE IF cp.Status.Initialized # TRUE THEN FALSE
    ELSE TRUE

\* shouldRotate: true if the cluster is ready and the generation is stale
shouldRotate(cp) ==
    IF ~cp.RotateCertificates.set THEN FALSE
    ELSE IF cp.Status.Initialized # TRUE THEN FALSE
    ELSE cp.Status.CertificateRotationGeneration # cp.RotateCertificates.Generation

WorkerServices ==
    { "rke2-server", "k3s-server", "api-server", "kubelet", "kube-proxy", "auth-proxy" }

ControlPlaneServices ==
    { "rke2-server", "k3s-server", "api-server", "kubelet", "kube-proxy", "auth-proxy",
      "controller-manager", "scheduler", "rke2-controller", "k3s-controller",
      "admin", "cloud-controller" }

EtcdServices ==
    { "etcd", "kubelet", "k3s-server", "rke2-server" }

\* relevantServices without the tests of the entry's roles.
relevantServices_AnyRole(entry) ==
    WorkerServices \cup ControlPlaneServices \cup EtcdServices

relevantServices(entry) ==
    (IF isWorker(entry) THEN WorkerServices ELSE {})
    \cup (IF isControlPlane(entry) THEN ControlPlaneServices ELSE {})
    \cup (IF isEtcd(entry) THEN EtcdServices ELSE {})

\* shouldRotateEntry asking that every rotated service apply to the entry.
shouldRotateEntry_EveryService(rot, entry) ==
    IF Len(rot.Services) = 0 THEN TRUE
    ELSE \A i \in 1..Len(rot.Services) : rot.Services[i] \in relevantServices(entry)

\* shouldRotateEntry: true if the rotated services apply to the entry's roles
shouldRotateEntry(rot, entry) ==
    IF Len(rot.Services) = 0 THEN TRUE
    ELSE \E i \in 1..Len(rot.Services) : rot.Services[i] \in relevantServices(entry)

\* pauseCAPICluster(controlPlane, paused): the flag after the call
pauseCAPICluster(flag, paused, ok) ==
    IF ok THEN paused ELSE flag

\* The caller stores the returned status as the control plane's status.
PersistStatus(cp, st) ==
    [ cp EXCEPT !.Status = st ]

\* ----------------------------------------------------------- plan composer

Roles == { "worker", "etcd", "controlplane" }

\* isOnlyWorker: a worker that is neither etcd nor control plane
isOnlyWorker(entry) ==
    isWorker(entry) /\ ~isEtcd(entry) /\ ~isControlPlane(entry)

\* capr.GetRuntime(controlPlane.Spec.KubernetesVersion)
RuntimeRKE2 == "rke2"
RuntimeK3S  == "k3s"
Runtimes    == { RuntimeRKE2, RuntimeK3S }

\* capr.GetRuntimeAgentUnit, capr.GetRuntimeServerUnit
GetRuntimeAgentUnit(runtime) ==
    IF runtime = RuntimeRKE2 THEN "rke2-agent" ELSE "k3s-agent"
GetRuntimeServerUnit(runtime) ==
    IF runtime = RuntimeRKE2 THEN "rke2-server" ELSE "k3s"

\* Keys of the resolved configuration and names of the arguments read from it.
KubeControllerManagerArg == "kube-controller-manager-arg"
KubeSchedulerArg         == "kube-scheduler-arg"
CertDirArgument          == "cert-dir"
TLSCertFileArgument      == "tls-cert-file"

\* A string is a sequence of pieces; a file name ends in its extension.
DefaultKubeControllerManagerCert == << "kube-controller-manager", ".crt" >>

\* strings.ReplaceAll(s, old, new) on the pieces of s
ReplaceAll(s, old, new) ==
    [ i \in 1..Len(s) |-> IF s[i] = old THEN new ELSE s[i] ]

\* strconv.FormatInt(n, 10) for n >= 0: the decimal digits of n
Digit(d) == << "0", "1", "2", "3", "4", "5", "6", "7", "8", "9" >>[d + 1]

RECURSIVE FormatInt(_)
FormatInt(n) ==
    IF n < 10 THEN << Digit(n) >>
    ELSE FormatInt(n \div 10) \o << Digit(n % 10) >>

\* getArgValue(args, name, "="): the value of the first "name=value" of args,
\* "" when there is none
RECURSIVE getArgValue(_, _)
getArgValue(args, name) ==
    IF args = <<>> THEN ""
    ELSE IF Head(args)[1] = name THEN Head(args)[2]
    ELSE getArgValue(Tail(args), name)

\* base64.StdEncoding.EncodeToString([]byte(idempotentRotateScript))
RotateScriptContent == [ encoding |-> "base64", script |-> "idempotentRotateScript" ]

OneTimeInstruction(name, command, args) ==
    [ Name |-> name, Command |-> command, Args |-> args ]

File(content, path) == [ Content |-> content, Path |-> path ]

\* plan.NodePlan{}
EmptyNodePlan == [ Files |-> <<>>, Instructions |-> <<>> ]

\* rotationContainsService taking an empty slice for "no service".
rotationContainsService_EmptyIsNone(rot, service) ==
    IF ~rot.set THEN FALSE
    ELSE \E i \in 1..Len(rot.Services) : rot.Services[i] = service

\* rotationContainsService: is the service among rotation.Services; true if
\* the slice is empty, false if there is no rotation
rotationContainsService(rot, service) ==
    IF ~rot.set THEN FALSE
    ELSE IF Len(rot.Services) = 0 THEN TRUE
    ELSE \E i \in 1..Len(rot.Services) : rot.Services[i] = service

\* for _, service := range rotation.Services { args = append(args, "-s", service) }
RECURSIVE ServiceArgs(_)
ServiceArgs(services) ==
    IF services = <<>> THEN <<>>
    ELSE << << "-s" >>, << Head(services) >> >> \o ServiceArgs(Tail(services))

rotateScriptPath(runtime) ==
    << "/var/lib/rancher/", runtime, "/rancher_v2prov_certificate_rotation/bin/rotate.sh" >>

\* the "rotate certificates" instruction: sh -xe rotate.sh <runtime> <generation> [-s service]...
RotateInstruction(runtime, rot) ==
    OneTimeInstruction("rotate certificates", "sh",
        << << "-xe" >>, rotateScriptPath(runtime), << runtime >>, FormatInt(rot.Generation) >>
        \o ServiceArgs(rot.Services))

RemoveInstruction(name, path) ==
    OneTimeInstruction(name, "rm", << << "-f" >>, path >>)

\* ControllerManagerRemovals without the test for an explicit TLS
\* certificate file.
ControllerManagerRemovals_IgnoresTLSCertFile(runtime, rot, config) ==
    LET kcmCertDir == getArgValue(config[KubeControllerManagerArg], CertDirArgument)
    IN  IF /\ rotationContainsService(rot, "controller-manager")
           /\ kcmCertDir # ""
        THEN << RemoveInstruction("remove kube-controller-manager cert for regeneration",
                    << kcmCertDir, "/" >> \o DefaultKubeControllerManagerCert),
                RemoveInstruction("remove kube-controller-manager key for regeneration",
                    << kcmCertDir, "/" >>
                    \o ReplaceAll(DefaultKubeControllerManagerCert, ".crt", ".key")) >>
             \o ( IF runtime = RuntimeRKE2
                  THEN << RemoveInstruction("remove kube-controller-manager static pod manifest",
                              << "/var/lib/rancher/rke2/agent/pod-manifests/kube-controller-manager.yaml" >>) >>
                  ELSE <<>> )
        ELSE <<>>

\* the removals of kube-controller-manager's self-signed certificate and key
ControllerManagerRemovals(runtime, rot, config) ==
    LET kcmCertDir == getArgValue(config[KubeControllerManagerArg], CertDirArgument)
    IN  IF /\ rotationContainsService(rot, "controller-manager")
           /\ kcmCertDir # ""
           /\ getArgValue(config[KubeControllerManagerArg], TLSCertFileArgument) = ""
        THEN << RemoveInstruction("remove kube-controller-manager cert for regeneration",
                    << kcmCertDir, "/" >> \o DefaultKubeControllerManagerCert),
                RemoveInstruction("remove kube-controller-manager key for regeneration",
                    << kcmCertDir, "/" >>
                    \o ReplaceAll(DefaultKubeControllerManagerCert, ".crt", ".key")) >>
             \o ( IF runtime = RuntimeRKE2
                  THEN << RemoveInstruction("remove kube-controller-manager static pod manifest",
                              << "/var/lib/rancher/rke2/agent/pod-manifests/kube-controller-manager.yaml" >>) >>
                  ELSE <<>> )
        ELSE <<>>

\* SchedulerRemovals without the test of the runtime.
SchedulerRemovals_ManifestOnAnyRuntime(runtime, rot, config) ==
    LET ksCertDir == getArgValue(config[KubeSchedulerArg], CertDirArgument)
    IN  IF /\ rotationContainsService(rot, "scheduler")
           /\ ksCertDir # ""
           /\ getArgValue(config[KubeSchedulerArg], TLSCertFileArgument) = ""
        THEN << RemoveInstruction("remove kube-scheduler cert for regeneration",
                    << ksCertDir, "/", KubeSchedulerArg >>),
                RemoveInstruction("remove kube-scheduler key for regeneration",
                    << ksCertDir, "/" >>
                    \o ReplaceAll(<< KubeSchedulerArg >>, ".crt", ".key")),
                RemoveInstruction("remove kube-scheduler static pod manifest",
                    << "/var/lib/rancher/rke2/agent/pod-manifests/kube-scheduler.yaml" >>) >>
        ELSE <<>>

\* the removals of kube-scheduler's self-signed certificate and key; the file
\* name is built from KubeSchedulerArg
SchedulerRemovals(runtime, rot, config) ==
    LET ksCertDir == getArgValue(config[KubeSchedulerArg], CertDirArgument)
    IN  IF /\ rotationContainsService(rot, "scheduler")
           /\ ksCertDir # ""
           /\ getArgValue(config[KubeSchedulerArg], TLSCertFileArgument) = ""
        THEN << RemoveInstruction("remove kube-scheduler cert for regeneration",
                    << ksCertDir, "/", KubeSchedulerArg >>),
                RemoveInstruction("remove kube-scheduler key for regeneration",
                    << ksCertDir, "/" >>
                    \o ReplaceAll(<< KubeSchedulerArg >>, ".crt", ".key")) >>
             \o ( IF runtime = RuntimeRKE2
                  THEN << RemoveInstruction("remove kube-scheduler static pod manifest",
                              << "/var/lib/rancher/rke2/agent/pod-manifests/kube-scheduler.yaml" >>) >>
                  ELSE <<>> )
        ELSE <<>>

\* generateManifestRemovalInstruction's instruction
ManifestRemovalInstruction ==
    OneTimeInstruction("remove static pod manifests", "rm", << << "-rf" >> >>)

RestartInstruction(unit) ==
    OneTimeInstruction("restart", "systemctl", << << "restart" >>, << unit >> >>)

\* ServerInstructions restarting the server before the self-signed
\* certificates and the manifests are removed.
ServerInstructions_RestartBeforeRemovals(runtime, rot, entry, ext) ==
    << RotateInstruction(runtime, rot) >>
    \o << RestartInstruction(GetRuntimeServerUnit(runtime)) >>
    \o ( IF isControlPlane(entry)
         THEN ControllerManagerRemovals(runtime, rot, ext.base.config)
              \o SchedulerRemovals(runtime, rot, ext.base.config)
         ELSE <<>> )
    \o ( IF runtime = RuntimeRKE2 /\ ext.manifestRemoval
         THEN << ManifestRemovalInstruction >>
         ELSE <<>> )

\* The instructions rotateCertificatesPlan appends for an entry that is not
\* worker-only, in the order it appends them.
ServerInstructions(runtime, rot, entry, ext) ==
    << RotateInstruction(runtime, rot) >>
    \o ( IF isControlPlane(entry)
         THEN ControllerManagerRemovals(runtime, rot, ext.base.config)
              \o SchedulerRemovals(runtime, rot, ext.base.config)
         ELSE <<>> )
    \o ( IF runtime = RuntimeRKE2 /\ ext.manifestRemoval
         THEN << ManifestRemovalInstruction >>
         ELSE <<>> )
    \o << RestartInstruction(GetRuntimeServerUnit(runtime)) >>

\* rotateCertificatesPlan without the return that ends the worker-only case.
rotateCertificatesPlan_WorkerFallsThrough(runtime, rot, entry, joinServer, ext) ==
    LET baseJoinServer == IF isOnlyWorker(entry) THEN "" ELSE joinServer
        base == ext.base
        out(plan) == [ plan |-> plan, joinedServer |-> base.joinedServer,
                       err |-> base.err, baseJoinServer |-> baseJoinServer ]
        restarted == IF isOnlyWorker(entry)
                     THEN << RestartInstruction(GetRuntimeAgentUnit(runtime)) >>
                     ELSE <<>>
    IN  IF base.err THEN out(EmptyNodePlan)
        ELSE out([ Files |-> Append(base.plan.Files,
                                    File(RotateScriptContent, rotateScriptPath(runtime))),
                   Instructions |-> base.plan.Instructions \o restarted
                                    \o ServerInstructions(runtime, rot, entry, ext) ])

\* rotateCertificatesPlan handing the join server on for every entry.
rotateCertificatesPlan_KeepsJoinServer(runtime, rot, entry, joinServer, ext) ==
    LET base == ext.base
        out(plan) == [ plan |-> plan, joinedServer |-> base.joinedServer,
                       err |-> base.err, baseJoinServer |-> joinServer ]
    IN  IF base.err THEN out(EmptyNodePlan)
        ELSE IF isOnlyWorker(entry)
        THEN out([ base.plan EXCEPT !.Instructions =
                     Append(@, RestartInstruction(GetRuntimeAgentUnit(runtime))) ])
        ELSE out([ Files |-> Append(base.plan.Files,
                                    File(RotateScriptContent, rotateScriptPath(runtime))),
                   Instructions |-> base.plan.Instructions
                                    \o ServerInstructions(runtime, rot, entry, ext) ])

\* rotateCertificatesPlan(controlPlane, tokensSecret, rotation, entry, joinServer).
\* runtime is the runtime of controlPlane.Spec.KubernetesVersion; ext holds the
\* collaborators' answers: base, what generatePlanWithConfigFiles returns
\* (plan, config, joinedServer, err), and manifestRemoval, whether
\* generateManifestRemovalInstruction generates an instruction.  The result
\* is (plan, joinedServer, err), with the join server that was handed to
\* generatePlanWithConfigFiles.
rotateCertificatesPlan(runtime, rot, entry, joinServer, ext) ==
    LET baseJoinServer == IF isOnlyWorker(entry) THEN "" ELSE joinServer
        base == ext.base
        out(plan) == [ plan |-> plan, joinedServer |-> base.joinedServer,
                       err |-> base.err, baseJoinServer |-> baseJoinServer ]
    IN  IF base.err THEN out(EmptyNodePlan)
        ELSE IF isOnlyWorker(entry)
        THEN out([ base.plan EXCEPT !.Instructions =
                     Append(@, RestartInstruction(GetRuntimeAgentUnit(runtime))) ])
        ELSE out([ Files |-> Append(base.plan.Files,
                                    File(RotateScriptContent, rotateScriptPath(runtime))),
                   Instructions |-> base.plan.Instructions
                                    \o ServerInstructions(runtime, rot, entry, ext) ])

\* ------------------------------------------- calls of the pure functions

\* The join servers findInitNode answers with; "" is none.
JoinServers == { "", "https://init-node:9345" }

\* Argument lists of a component in the resolved configuration, as
\* name=value pairs.
ArgLists ==
    { <<>>,
      << << CertDirArgument, "/var/lib/rancher/tls" >> >>,
      << << TLSCertFileArgument, "/etc/tls/serving.crt" >> >>,
      << << "v", "2" >>, << CertDirArgument, "/var/lib/rancher/tls" >>,
         << TLSCertFileArgument, "/etc/tls/serving.crt" >> >> }

Configs == [ { KubeControllerManagerArg, KubeSchedulerArg } -> ArgLists ]

\* The plans generatePlanWithConfigFiles returns: none or one file, none or
\* one instruction.
BasePlans ==
    { EmptyNodePlan,
      [ Files |-> << File([ encoding |-> "base64", script |-> "config" ],
                          << "/etc/rancher/config.yaml" >>) >>,
        Instructions |-> << OneTimeInstruction("install", "sh", << << "install.sh" >> >>) >> ] }

\* What the collaborators of rotateCertificatesPlan answer.
Collaborators ==
    [ base : [ plan : BasePlans, config : Configs,
               joinedServer : JoinServers, err : BOOLEAN ],
      manifestRemoval : BOOLEAN ]

NoCollaborators ==
    [ base |-> [ plan |-> EmptyNodePlan,
                 config |-> [ c \in { KubeControllerManagerArg, KubeSchedulerArg } |-> <<>> ],
                 joinedServer |-> "", err |-> FALSE ],
      manifestRemoval |-> FALSE ]

\* The services a rotation request may name, and one it may not.
ServiceNames == ControlPlaneServices \cup EtcdServices \cup { "bogus" }

\* Entries with every combination of roles, the one without a role included.
Entries == SUBSET Roles

\* Service lists of the requests handed to shouldRotateEntry and
\* rotationContainsService: none, every single name, and some pairs.
ProbeServiceLists ==
    { <<>> } \cup { << s >> : s \in ServiceNames }
    \cup { << "bogus", s >> : s \in { "etcd", "kube-proxy", "admin", "bogus" } }

\* Service lists and generations of the requests handed to
\* rotateCertificatesPlan.
PlanServiceLists ==
    { <<>>, << "etcd" >>, << "controller-manager" >>, << "scheduler" >>,
      << "scheduler", "controller-manager" >> }

PlanGenerations == { 1, 12 }

PlanInput(probe, runtime, rot, entry, joinServer, service, ext) ==
    [ probe |-> probe, runtime |-> runtime, rotation |-> rot, entry |-> entry,
      joinServer |-> joinServer, service |-> service, ext |-> ext ]

NoPlanInput == PlanInput("none", RuntimeRKE2, Nil, {}, "", "", NoCollaborators)

EntryInputs ==
    { PlanInput("entry", RuntimeRKE2, rot, entry, "", "", NoCollaborators) :
        rot \in [ set : {TRUE}, Generation : {1}, Services : ProbeServiceLists ],
        entry \in Entries }

ServiceInputs ==
    { PlanInput("service", RuntimeRKE2, rot, {}, "", service, NoCollaborators) :
        rot \in { Nil } \cup [ set : {TRUE}, Generation : {1}, Services : ProbeServiceLists ],
        service \in ServiceNames }

PlanInputs ==
    [ probe : {"plan"}, runtime : Runtimes,
      rotation : [ set : {TRUE}, Generation : PlanGenerations, Services : PlanServiceLists ],
      entry : Entries, joinServer : JoinServers, service : {""}, ext : Collaborators ]

PlanOutput(op, bool, composed) ==
    [ op |-> op, bool |-> bool, plan |-> composed.plan,
      joinedServer |-> composed.joinedServer, err |-> composed.err,
      baseJoinServer |-> composed.baseJoinServer, assignedJoinServer |-> "" ]

NothingComposed ==
    [ plan |-> EmptyNodePlan, joinedServer |-> "", err |-> FALSE, baseJoinServer |-> "" ]

NoPlanOutput == PlanOutput("none", FALSE, NothingComposed)

\* ------------------------------------------------- the rotation script

\* Executions of the script on one node are counted up to this number.
MaxRuns == 3

\* The generations of the plans a node is handed.
NodeGenerations == { 1, 2, 12 }

\* A file that does not exist, and a file with the given content.
NoFile == [ exists |-> FALSE, content |-> <<>> ]
FileOf(content) == [ exists |-> TRUE, content |-> content ]

\* The node before any plan: a runtime, no generation file.
NoNode == [ runtime |-> RuntimeRKE2, dataRoot |-> FALSE, generationFile |-> NoFile ]

\* $( ... ): the output of a command without its trailing newlines
RECURSIVE CommandSubstitution(_)
CommandSubstitution(output) ==
    IF output # <<>> /\ output[Len(output)] = "\n"
    THEN CommandSubstitution(SubSeq(output, 1, Len(output) - 1))
    ELSE output

\* echo word: the word and a newline
Echo(word) == word \o << "\n" >>

\* $(cat "$generationFile" || echo "")
ReadGeneration(file) ==
    CommandSubstitution(IF file.exists THEN file.content ELSE Echo(<<>>))

\* [ "$currentGeneration" != "$targetGeneration" ] passing for every
\* generation.
GenerationDiffers_Always(currentGeneration, targetGeneration) == TRUE

\* [ "$currentGeneration" != "$targetGeneration" ]
GenerationDiffers(currentGeneration, targetGeneration) ==
    currentGeneration # targetGeneration

\* No execution is under way.
NoScript ==
    [ pc |-> "none", generation |-> 0, runtime |-> <<>>, targetGeneration |-> <<>>,
      args |-> <<>>, currentGeneration |-> <<>>, markerAtStart |-> <<>>,
      rotated |-> FALSE ]

\* An execution that has ended, as runs records it: the generation of the
\* plan, the generation in the node's file when the execution began and when
\* it ended, whether it invoked "certificate rotate" and whether it ran to
\* completion.
Run(execution, file, completed) ==
    [ generation |-> execution.generation,
      markerAtStart |-> execution.markerAtStart,
      markerAtEnd |-> ReadGeneration(file),
      rotated |-> execution.rotated,
      completed |-> completed ]

\* --------------------------------------------------------------- initial

Init ==
    /\ controlPlane \in [ RotateCertificates : Rotations,
                          Status : [ Initialized : BOOLEAN,
                                     CertificateRotationGeneration : {0} ] ]
    /\ clusterPlan \in Inventories
    /\ capiPaused = FALSE
    /\ pc = "idle"
    /\ idx = 0
    /\ inStatus = controlPlane.Status
    /\ status = controlPlane.Status
    /\ result = NoResult
    /\ pausedAtStart = FALSE
    /\ initNode = "notCalled"
    /\ calls = <<>>
    /\ assignCount = NoCalls
    /\ planInput = NoPlanInput
    /\ planOutput = NoPlanOutput
    /\ node = NoNode
    /\ script = NoScript
    /\ runs = <<>>

\* ------------------------------------------------------------ environment

\* The operator changes, resets or removes the rotation request.
UpdateSpec(rot) ==
    /\ pc = "idle"
    /\ rot # rotation
    /\ controlPlane' = [ controlPlane EXCEPT !.RotateCertificates = rot ]
    /\ assignCount' =
         IF rot.set /\ rotation.set /\ rot.Generation = rotation.Generation
         THEN assignCount ELSE NoCalls
    /\ UNCHANGED << composerVars, clusterPlan, capiPaused, pc, passVars >>

\* The control plane finishes its bootstrap.
MarkInitialized ==
    /\ pc = "idle"
    /\ ~controlPlane.Status.Initialized
    /\ controlPlane' = [ controlPlane EXCEPT !.Status.Initialized = TRUE ]
    /\ UNCHANGED << composerVars, clusterPlan, capiPaused, pc, passVars, assignCount >>

\* ------------------------------------------------------ rotateCertificates

\* The pass is entered with the control plane's status.
Enter ==
    /\ pc = "idle"
    /\ inStatus' = controlPlane.Status
    /\ status' = controlPlane.Status
    /\ pausedAtStart' = capiPaused
    /\ calls' = <<>>

\* return status, err
Return(st, err) ==
    /\ pc' = "done"
    /\ result' = [ status |-> st, err |-> err ]

\* GateClosed returning an empty status in place of the one it was given.
GateClosed_ReturnsEmptyStatus ==
    /\ Enter
    /\ ~shouldRotate(controlPlane)
    /\ initNode' = "notCalled"
    /\ Return([ Initialized |-> FALSE, CertificateRotationGeneration |-> 0 ], NoError)
    /\ UNCHANGED << composerVars, controlPlane, clusterPlan, capiPaused, idx, assignCount >>

\* if !shouldRotate(controlPlane) { return status, nil }
GateClosed ==
    /\ Enter
    /\ ~shouldRotate(controlPlane)
    /\ initNode' = "notCalled"
    /\ Return(status', NoError)
    /\ UNCHANGED << composerVars, controlPlane, clusterPlan, capiPaused, idx, assignCount >>

\* findInitNode returns an error: return status, err
FindInitNodeFailed ==
    /\ Enter
    /\ shouldRotate(controlPlane)
    /\ initNode' = "error"
    /\ Return(status', InitNodeError)
    /\ UNCHANGED << composerVars, controlPlane, clusterPlan, capiPaused, idx, assignCount >>

\* NoInitNode returning an error in place of nil.
NoInitNode_ReturnsError ==
    /\ Enter
    /\ shouldRotate(controlPlane)
    /\ initNode' \in { "notFound", "emptyJoinServer" }
    /\ Return(status', InitNodeError)
    /\ UNCHANGED << composerVars, controlPlane, clusterPlan, capiPaused, idx, assignCount >>

\* if !found || joinServer == "" { return status, nil }
NoInitNode ==
    /\ Enter
    /\ shouldRotate(controlPlane)
    /\ initNode' \in { "notFound", "emptyJoinServer" }
    /\ Return(status', NoError)
    /\ UNCHANGED << composerVars, controlPlane, clusterPlan, capiPaused, idx, assignCount >>

\* an init node with a join server is found: the loop over the entries begins
EnterLoop ==
    /\ Enter
    /\ shouldRotate(controlPlane)
    /\ initNode' = "found"
    /\ pc' = "loop"
    /\ idx' = 1
    /\ UNCHANGED << composerVars, controlPlane, clusterPlan, capiPaused, result, assignCount >>

InLoop ==
    /\ pc = "loop"
    /\ idx <= Len(clusterPlan)

\* SkipEntry without the relevance test: any entry may be passed over.
SkipEntry_AnyEntry ==
    /\ InLoop
    /\ idx' = idx + 1
    /\ UNCHANGED << composerVars, controlPlane, clusterPlan, capiPaused, pc, inStatus, status,
                    result, pausedAtStart, initNode, calls, assignCount >>

\* if !shouldRotateEntry(...) { continue }
SkipEntry ==
    /\ InLoop
    /\ ~shouldRotateEntry(rotation, clusterPlan[idx])
    /\ idx' = idx + 1
    /\ UNCHANGED << composerVars, controlPlane, clusterPlan, capiPaused, pc, inStatus, status,
                    result, pausedAtStart, initNode, calls, assignCount >>

\* ComposeFailed with the pause flag released before the return.
ComposeFailed_Unpauses ==
    /\ InLoop
    /\ shouldRotateEntry(rotation, clusterPlan[idx])
    /\ calls' = calls \o << ComposeCall(idx, FALSE), PauseCall(FALSE, TRUE) >>
    /\ capiPaused' = pauseCAPICluster(capiPaused, FALSE, TRUE)
    /\ Return(status, ComposeError)
    /\ UNCHANGED << composerVars, controlPlane, clusterPlan, idx, inStatus, status,
                    pausedAtStart, initNode, assignCount >>

\* ComposeFailed going on with the next entry in place of returning.
ComposeFailed_Continues ==
    /\ InLoop
    /\ shouldRotateEntry(rotation, clusterPlan[idx])
    /\ calls' = Append(calls, ComposeCall(idx, FALSE))
    /\ idx' = idx + 1
    /\ UNCHANGED << composerVars, controlPlane, clusterPlan, capiPaused, pc, inStatus, status,
                    result, pausedAtStart, initNode, assignCount >>

\* rotateCertificatesPlan returns an error: return status, err
ComposeFailed ==
    /\ InLoop
    /\ shouldRotateEntry(rotation, clusterPlan[idx])
    /\ calls' = Append(calls, ComposeCall(idx, FALSE))
    /\ Return(status, ComposeError)
    /\ UNCHANGED << composerVars, controlPlane, clusterPlan, capiPaused, idx, inStatus, status,
                    pausedAtStart, initNode, assignCount >>

Counted(n) == IF n < MaxCalls THEN n + 1 ELSE MaxCalls

\* the plan is composed and assignAndCheckPlan is called with it
Assign ==
    /\ InLoop
    /\ shouldRotateEntry(rotation, clusterPlan[idx])
    /\ calls' = Append(calls, ComposeCall(idx, TRUE))
    /\ assignCount' = [ assignCount EXCEPT ![idx] = Counted(@) ]
    /\ pc' = "assigning"
    /\ UNCHANGED << composerVars, controlPlane, clusterPlan, capiPaused, idx, inStatus, status,
                    result, pausedAtStart, initNode >>

\* AssignSucceeded without the step to the next entry.
AssignSucceeded_SameEntry ==
    /\ pc = "assigning"
    /\ calls' = Append(calls, AssignCall(idx, TRUE))
    /\ pc' = "loop"
    /\ UNCHANGED << composerVars, controlPlane, clusterPlan, capiPaused, idx, inStatus, status,
                    result, pausedAtStart, initNode, assignCount >>

\* assignAndCheckPlan returns nil: the loop goes on with the next entry
AssignSucceeded ==
    /\ pc = "assigning"
    /\ calls' = Append(calls, AssignCall(idx, TRUE))
    /\ idx' = idx + 1
    /\ pc' = "loop"
    /\ UNCHANGED << composerVars, controlPlane, clusterPlan, capiPaused, inStatus, status,
                    result, pausedAtStart, initNode, assignCount >>

\* AssignFailedPaused with the status generation set before the return.
AssignFailedPaused_AdvancesStatus ==
    /\ pc = "assigning"
    /\ calls' = calls \o << AssignCall(idx, FALSE), PauseCall(TRUE, TRUE) >>
    /\ capiPaused' = pauseCAPICluster(capiPaused, TRUE, TRUE)
    /\ status' = [ status EXCEPT !.CertificateRotationGeneration = rotation.Generation ]
    /\ Return(status', AssignError)
    /\ UNCHANGED << composerVars, controlPlane, clusterPlan, idx, inStatus,
                    pausedAtStart, initNode, assignCount >>

\* AssignFailedPaused with the flag of the pause call inverted.
AssignFailedPaused_Unpauses ==
    /\ pc = "assigning"
    /\ calls' = calls \o << AssignCall(idx, FALSE), PauseCall(FALSE, TRUE) >>
    /\ capiPaused' = pauseCAPICluster(capiPaused, FALSE, TRUE)
    /\ Return(status, AssignError)
    /\ UNCHANGED << composerVars, controlPlane, clusterPlan, idx, inStatus, status,
                    pausedAtStart, initNode, assignCount >>

\* assignAndCheckPlan returns an error; pauseCAPICluster(controlPlane, true)
\* succeeds: return status, err
AssignFailedPaused ==
    /\ pc = "assigning"
    /\ calls' = calls \o << AssignCall(idx, FALSE), PauseCall(TRUE, TRUE) >>
    /\ capiPaused' = pauseCAPICluster(capiPaused, TRUE, TRUE)
    /\ Return(status, AssignError)
    /\ UNCHANGED << composerVars, controlPlane, clusterPlan, idx, inStatus, status,
                    pausedAtStart, initNode, assignCount >>

\* AssignFailedPauseFailed returning the dispatch error, not the pause error.
AssignFailedPauseFailed_ReturnsDispatchError ==
    /\ pc = "assigning"
    /\ calls' = calls \o << AssignCall(idx, FALSE), PauseCall(TRUE, FALSE) >>
    /\ capiPaused' = pauseCAPICluster(capiPaused, TRUE, FALSE)
    /\ Return(status, AssignError)
    /\ UNCHANGED << composerVars, controlPlane, clusterPlan, idx, inStatus, status,
                    pausedAtStart, initNode, assignCount >>

\* assignAndCheckPlan returns an error; pauseCAPICluster(controlPlane, true)
\* fails too: return status, pauseErr
AssignFailedPauseFailed ==
    /\ pc = "assigning"
    /\ calls' = calls \o << AssignCall(idx, FALSE), PauseCall(TRUE, FALSE) >>
    /\ capiPaused' = pauseCAPICluster(capiPaused, TRUE, FALSE)
    /\ Return(status, PauseError)
    /\ UNCHANGED << composerVars, controlPlane, clusterPlan, idx, inStatus, status,
                    pausedAtStart, initNode, assignCount >>

LoopDone ==
    /\ pc = "loop"
    /\ idx > Len(clusterPlan)

\* pauseCAPICluster(controlPlane, false) fails:
\* return status, errWaiting("unpausing CAPI cluster")
UnpauseFailed ==
    /\ LoopDone
    /\ calls' = Append(calls, PauseCall(FALSE, FALSE))
    /\ capiPaused' = pauseCAPICluster(capiPaused, FALSE, FALSE)
    /\ Return(status, errWaiting("unpausing CAPI cluster"))
    /\ UNCHANGED << composerVars, controlPlane, clusterPlan, idx, inStatus, status,
                    pausedAtStart, initNode, assignCount >>

\* UnpauseSucceeded returning nil in place of the waiting error.
UnpauseSucceeded_ReturnsNil ==
    /\ LoopDone
    /\ calls' = Append(calls, PauseCall(FALSE, TRUE))
    /\ capiPaused' = pauseCAPICluster(capiPaused, FALSE, TRUE)
    /\ status' = [ status EXCEPT !.CertificateRotationGeneration = rotation.Generation ]
    /\ Return(status', NoError)
    /\ UNCHANGED << composerVars, controlPlane, clusterPlan, idx, inStatus, pausedAtStart,
                    initNode, assignCount >>

\* UnpauseSucceeded without the assignment of the generation.
UnpauseSucceeded_KeepsGeneration ==
    /\ LoopDone
    /\ calls' = Append(calls, PauseCall(FALSE, TRUE))
    /\ capiPaused' = pauseCAPICluster(capiPaused, FALSE, TRUE)
    /\ Return(status, errWaiting("certificate rotation done"))
    /\ UNCHANGED << composerVars, controlPlane, clusterPlan, idx, inStatus, status,
                    pausedAtStart, initNode, assignCount >>

\* UnpauseSucceeded returning at once, with nil, when the loop dispatched
\* nothing.
UnpauseSucceeded_OnlyIfDispatched ==
    /\ LoopDone
    /\ IF \E k \in 1..Len(calls) : calls[k].op = "assignAndCheckPlan"
       THEN /\ calls' = Append(calls, PauseCall(FALSE, TRUE))
            /\ capiPaused' = pauseCAPICluster(capiPaused, FALSE, TRUE)
            /\ status' = [ status EXCEPT !.CertificateRotationGeneration = rotation.Generation ]
            /\ Return(status', errWaiting("certificate rotation done"))
       ELSE /\ UNCHANGED << calls, capiPaused, status >>
            /\ Return(status, NoError)
    /\ UNCHANGED << composerVars, controlPlane, clusterPlan, idx, inStatus, pausedAtStart,
                    initNode, assignCount >>

\* pauseCAPICluster(controlPlane, false) succeeds:
\* status.CertificateRotationGeneration = ...Generation
\* return status, errWaiting("certificate rotation done")
UnpauseSucceeded ==
    /\ LoopDone
    /\ calls' = Append(calls, PauseCall(FALSE, TRUE))
    /\ capiPaused' = pauseCAPICluster(capiPaused, FALSE, TRUE)
    /\ status' = [ status EXCEPT !.CertificateRotationGeneration = rotation.Generation ]
    /\ Return(status', errWaiting("certificate rotation done"))
    /\ UNCHANGED << composerVars, controlPlane, clusterPlan, idx, inStatus, pausedAtStart,
                    initNode, assignCount >>

\* The pass has returned: the caller persists the returned status.
Finish ==
    /\ pc = "done"
    /\ controlPlane' = PersistStatus(controlPlane, result.status)
    /\ pc' = "idle"
    /\ idx' = 0
    /\ inStatus' = result.status
    /\ status' = result.status
    /\ result' = NoResult
    /\ pausedAtStart' = FALSE
    /\ initNode' = "notCalled"
    /\ calls' = <<>>
    /\ UNCHANGED << composerVars, clusterPlan, capiPaused, assignCount >>

Next ==
    \/ \E rot \in Rotations : UpdateSpec(rot)
    \/ MarkInitialized
    \/ GateClosed
    \/ FindInitNodeFailed
    \/ NoInitNode
    \/ EnterLoop
    \/ SkipEntry
    \/ ComposeFailed
    \/ Assign
    \/ AssignSucceeded
    \/ AssignFailedPaused
    \/ AssignFailedPauseFailed
    \/ UnpauseFailed
    \/ UnpauseSucceeded
    \/ Finish

Spec == Init /\ [][Next]_vars

\* Some step of a reconciliation pass.
Pass ==
    \/ GateClosed
    \/ FindInitNodeFailed
    \/ NoInitNode
    \/ EnterLoop
    \/ SkipEntry
    \/ ComposeFailed
    \/ Assign
    \/ AssignSucceeded
    \/ AssignFailedPaused
    \/ AssignFailedPauseFailed
    \/ UnpauseFailed
    \/ UnpauseSucceeded
    \/ Finish

\* The outer control loop keeps invoking passes and every call of a pass
\* returns; a call that is made again and again eventually succeeds: the
\* init node is found, each entry's plan is composed and its dispatch
\* succeeds, and the CAPI cluster is unpaused.  The rotation request is the
\* operator's: nothing is assumed of it.
Fairness ==
    /\ WF_vars(Pass)
    /\ SF_vars(EnterLoop)
    /\ \A i \in 1..MaxNodes : SF_vars(Assign /\ idx = i)
    /\ \A i \in 1..MaxNodes : SF_vars(AssignSucceeded /\ idx = i)
    /\ SF_vars(UnpauseSucceeded)

LiveSpec == Init /\ [][Next]_vars /\ Fairness

\* ------------------------------------------- passes for a fixed request

\* An initialized cluster with a rotation request that stays as it is.  A
\* pass looks at the services of the request and at the roles of an entry
\* through shouldRotateEntry alone: the request names etcd, which makes an
\* etcd entry relevant and a worker entry not.
FixedInit ==
    /\ Init
    /\ rotation.set
    /\ rotation.Services = << "etcd" >>
    /\ controlPlane.Status.Initialized
    /\ \A i \in 1..Len(clusterPlan) : clusterPlan[i] \in { { "etcd" }, { "worker" } }

\* The reconciliation passes alone: the operator leaves the request alone.
FixedNext ==
    \/ GateClosed
    \/ FindInitNodeFailed
    \/ NoInitNode
    \/ EnterLoop
    \/ SkipEntry
    \/ ComposeFailed
    \/ Assign
    \/ AssignSucceeded
    \/ AssignFailedPaused
    \/ AssignFailedPauseFailed
    \/ UnpauseFailed
    \/ UnpauseSucceeded
    \/ Finish

FixedSpec == FixedInit /\ [][FixedNext]_vars /\ Fairness

\* ------------------------------- the pure functions called on their own

\* No pass is under way; one of the functions is called on arguments drawn
\* from the sets above.
PlanInit ==
    /\ controlPlane = [ RotateCertificates |-> Nil,
                        Status |-> [ Initialized |-> TRUE,
                                     CertificateRotationGeneration |-> 0 ] ]
    /\ clusterPlan = <<>>
    /\ capiPaused = FALSE
    /\ pc = "idle"
    /\ idx = 0
    /\ inStatus = controlPlane.Status
    /\ status = controlPlane.Status
    /\ result = NoResult
    /\ pausedAtStart = FALSE
    /\ initNode = "notCalled"
    /\ calls = <<>>
    /\ assignCount = NoCalls
    /\ planInput \in EntryInputs \cup ServiceInputs \cup PlanInputs
    /\ planOutput = NoPlanOutput
    /\ node = NoNode
    /\ script = NoScript
    /\ runs = <<>>

orchestratorVars == << controlPlane, clusterPlan, capiPaused, pc, idx, inStatus,
                       status, result, pausedAtStart, initNode, calls, assignCount >>

\* shouldRotateEntry(rotation, entry)
CallShouldRotateEntry ==
    /\ planInput.probe = "entry"
    /\ planOutput = NoPlanOutput
    /\ planOutput' = PlanOutput("shouldRotateEntry",
                                shouldRotateEntry(planInput.rotation, planInput.entry),
                                NothingComposed)
    /\ UNCHANGED << orchestratorVars, planInput, nodeVars >>

\* rotationContainsService(rotation, service)
CallRotationContainsService ==
    /\ planInput.probe = "service"
    /\ planOutput = NoPlanOutput
    /\ planOutput' = PlanOutput("rotationContainsService",
                                rotationContainsService(planInput.rotation, planInput.service),
                                NothingComposed)
    /\ UNCHANGED << orchestratorVars, planInput, nodeVars >>

\* rotateCertificatesPlan(controlPlane, tokensSecret, rotation, entry, joinServer)
CallRotateCertificatesPlan ==
    /\ planInput.probe = "plan"
    /\ planOutput = NoPlanOutput
    /\ planOutput' = PlanOutput("rotateCertificatesPlan", FALSE,
                                rotateCertificatesPlan(planInput.runtime, planInput.rotation,
                                                       planInput.entry, planInput.joinServer,
                                                       planInput.ext))
    /\ UNCHANGED << orchestratorVars, planInput, nodeVars >>

\* The pass hands the composed plan and the join server that came with it
\* to assignAndCheckPlan(p.store, ..., node, rotatePlan, joinedServer, 0, 0).
CallAssignAndCheckPlan ==
    /\ planOutput.op = "rotateCertificatesPlan"
    /\ ~planOutput.err
    /\ planOutput' = [ planOutput EXCEPT !.op = "assignAndCheckPlan",
                                         !.assignedJoinServer = planOutput.joinedServer ]
    /\ UNCHANGED << orchestratorVars, planInput, nodeVars >>

PlanNext ==
    \/ CallShouldRotateEntry
    \/ CallRotationContainsService
    \/ CallRotateCertificatesPlan
    \/ CallAssignAndCheckPlan

PlanSpec == PlanInit /\ [][PlanNext]_vars

\* ------------------------------------- the rotation script on one node

\* The requests whose plans the node is handed.
NodeRotations ==
    [ set : {TRUE}, Generation : NodeGenerations, Services : { <<>>, << "etcd" >> } ]

NodeInit ==
    /\ controlPlane = [ RotateCertificates |-> Nil,
                        Status |-> [ Initialized |-> TRUE,
                                     CertificateRotationGeneration |-> 0 ] ]
    /\ clusterPlan = <<>>
    /\ capiPaused = FALSE
    /\ pc = "idle"
    /\ idx = 0
    /\ inStatus = controlPlane.Status
    /\ status = controlPlane.Status
    /\ result = NoResult
    /\ pausedAtStart = FALSE
    /\ initNode = "notCalled"
    /\ calls = <<>>
    /\ assignCount = NoCalls
    /\ planInput = NoPlanInput
    /\ planOutput = NoPlanOutput
    /\ node \in [ runtime : Runtimes, dataRoot : {FALSE}, generationFile : {NoFile} ]
    /\ script = NoScript
    /\ runs = <<>>

planVars == << planInput, planOutput >>

\* The node runs the "rotate certificates" instruction of a plan composed
\* for rot: sh -xe rotate.sh <runtime> <generation> [-s <service>]...
\* targetGeneration=$2, runtime=$1, shift, shift.
ScriptStart(rot) ==
    /\ script.pc \in { "none", "exited" }
    /\ Len(runs) < MaxRuns
    /\ LET args == RotateInstruction(node.runtime, rot).Args
       IN  /\ args[1] = << "-xe" >>
           /\ args[2] = rotateScriptPath(node.runtime)
           /\ script' = [ pc |-> "cat",
                          generation |-> rot.Generation,
                          runtime |-> args[3],
                          targetGeneration |-> args[4],
                          args |-> SubSeq(args, 5, Len(args)),
                          currentGeneration |-> <<>>,
                          markerAtStart |-> ReadGeneration(node.generationFile),
                          rotated |-> FALSE ]
    /\ UNCHANGED << orchestratorVars, planVars, node, runs >>

\* currentGeneration=$(cat "$generationFile" || echo "")
ScriptReadGeneration ==
    /\ script.pc = "cat"
    /\ script' = [ script EXCEPT !.pc = "test",
                                 !.currentGeneration = ReadGeneration(node.generationFile) ]
    /\ UNCHANGED << orchestratorVars, planVars, node, runs >>

\* if [ "$currentGeneration" != "$targetGeneration" ]; then
\*   $runtime certificate rotate $@
ScriptRotate ==
    /\ script.pc = "test"
    /\ GenerationDiffers(script.currentGeneration, script.targetGeneration)
    /\ script' = [ script EXCEPT !.pc = "mkdir", !.rotated = TRUE ]
    /\ UNCHANGED << orchestratorVars, planVars, node, runs >>

\* "certificate rotate" fails: under sh -e the script exits there.
ScriptRotateFailed ==
    /\ script.pc = "test"
    /\ GenerationDiffers(script.currentGeneration, script.targetGeneration)
    /\ script' = [ script EXCEPT !.pc = "exited", !.rotated = TRUE ]
    /\ runs' = Append(runs, Run(script', node.generationFile, FALSE))
    /\ UNCHANGED << orchestratorVars, planVars, node >>

\* else echo "certificates have already been rotated to the current generation."
ScriptSkip ==
    /\ script.pc = "test"
    /\ ~GenerationDiffers(script.currentGeneration, script.targetGeneration)
    /\ script' = [ script EXCEPT !.pc = "mkdir" ]
    /\ UNCHANGED << orchestratorVars, planVars, node, runs >>

\* mkdir -p $dataRoot
ScriptMkdir ==
    /\ script.pc = "mkdir"
    /\ node' = [ node EXCEPT !.dataRoot = TRUE ]
    /\ script' = [ script EXCEPT !.pc = "echo" ]
    /\ UNCHANGED << orchestratorVars, planVars, runs >>

\* mkdir fails: under sh -e the script exits there.
ScriptMkdirFailed ==
    /\ script.pc = "mkdir"
    /\ script' = [ script EXCEPT !.pc = "exited" ]
    /\ runs' = Append(runs, Run(script, node.generationFile, FALSE))
    /\ UNCHANGED << orchestratorVars, planVars, node >>

\* echo $targetGeneration > "$generationFile", the last command
ScriptWriteGeneration ==
    /\ script.pc = "echo"
    /\ node.dataRoot
    /\ node' = [ node EXCEPT !.generationFile = FileOf(Echo(script.targetGeneration)) ]
    /\ script' = [ script EXCEPT !.pc = "exited" ]
    /\ runs' = Append(runs, Run(script, node'.generationFile, TRUE))
    /\ UNCHANGED << orchestratorVars, planVars >>

NodeNext ==
    \/ \E rot \in NodeRotations : ScriptStart(rot)
    \/ ScriptReadGeneration
    \/ ScriptRotate
    \/ ScriptRotateFailed
    \/ ScriptSkip
    \/ ScriptMkdir
    \/ ScriptMkdirFailed
    \/ ScriptWriteGeneration

NodeSpec == NodeInit /\ [][NodeNext]_vars

\* ---------------------------------------------------- reading a pass's log

Returned == pc = "done"

Requested == rotation.Generation

\* The entries of the inventory shouldRotateEntry accepts.
RelevantNodes ==
    { i \in 1..Len(clusterPlan) : shouldRotateEntry(rotation, clusterPlan[i]) }

Called(c) == \E k \in 1..Len(calls) : calls[k] = c

\* Positions of the log holding a call of op.
CallsOf(op) == { k \in 1..Len(calls) : calls[k].op = op }

AssignedNodes == { calls[k].node : k \in CallsOf("assignAndCheckPlan") }
ComposedNodes == { calls[k].node : k \in CallsOf("rotateCertificatesPlan") }

\* Some assignAndCheckPlan call of the pass returned an error.
SomeAssignFailed == \E i \in 1..Len(clusterPlan) : Called(AssignCall(i, FALSE))

\* Every relevant entry's assignAndCheckPlan call returned nil in this pass.
AllAssigned == \A i \in RelevantNodes : Called(AssignCall(i, TRUE))

\* The pass got past the gate and found an init node.
LoopEntered == initNode = "found"

\* ------------------------------------------------------------------ claims

\* C1: the returned status carries the requested generation only on the exit
\* where every relevant node's dispatch succeeded and the unpause call
\* succeeded; on every other exit it carries the generation of the status
\* the pass was called with.
C1_GenerationOnlyOnSuccess ==
    Returned =>
        result.status.CertificateRotationGeneration =
            IF LoopEntered /\ AllAssigned /\ Called(PauseCall(FALSE, TRUE))
            THEN Requested
            ELSE inStatus.CertificateRotationGeneration

\* A pass that dispatched to one node with success and failed on the next
\* returns the generation it was given, which is not the requested one.
C1_Witness ==
    /\ Returned
    /\ SomeAssignFailed
    /\ \E i \in 1..Len(clusterPlan) : Called(AssignCall(i, TRUE))
    /\ result.status.CertificateRotationGeneration = inStatus.CertificateRotationGeneration
    /\ result.status.CertificateRotationGeneration # Requested

\* C2: whenever a pass returns a status advanced to the requested generation,
\* every entry shouldRotateEntry accepts had its plan dispatched through
\* assignAndCheckPlan with success earlier in that pass.
C2_NoCompletionWithUnconfirmedNode ==
    ( /\ Returned
      /\ result.status.CertificateRotationGeneration = Requested
      /\ inStatus.CertificateRotationGeneration # Requested )
    => \A i \in RelevantNodes :
          \E k \in CallsOf("assignAndCheckPlan") :
             /\ calls[k] = AssignCall(i, TRUE)
             /\ \E u \in CallsOf("pauseCAPICluster") : k < u

\* A pass over three entries, one of them not relevant, advances the status.
C2_Witness ==
    /\ Returned
    /\ result.status.CertificateRotationGeneration = Requested
    /\ inStatus.CertificateRotationGeneration # Requested
    /\ Cardinality(RelevantNodes) = 2
    /\ Len(clusterPlan) = 3

\* C3: the pause flag is true during the whole window from the first dispatch
\* of a pass until the pass completes or gives up; in particular it is true
\* whenever assignAndCheckPlan has been called and has not yet returned.
C3_PausedWhileInFlight ==
    ( \/ pc = "assigning"
      \/ pc = "loop" /\ CallsOf("assignAndCheckPlan") # {} )
    => capiPaused

\* C4: when assignAndCheckPlan fails for a node, the pass calls
\* pauseCAPICluster with true, composes and dispatches no later entry, never
\* calls pauseCAPICluster with false, and returns an error.
C4_DispatchFailureAborts ==
    ( Returned /\ SomeAssignFailed )
    => \E f \in 1..Len(clusterPlan) :
          /\ Called(AssignCall(f, FALSE))
          /\ \E ok \in BOOLEAN : Called(PauseCall(TRUE, ok))
          /\ \A ok \in BOOLEAN : ~Called(PauseCall(FALSE, ok))
          /\ \A i \in ComposedNodes \cup AssignedNodes : i <= f
          /\ result.err.kind = "error"

\* The dispatch to the second of three relevant entries failed.
C4_Witness ==
    /\ Returned
    /\ Len(clusterPlan) = 3
    /\ RelevantNodes = {1, 2, 3}
    /\ Called(AssignCall(1, TRUE))
    /\ Called(AssignCall(2, FALSE))

\* The pass made exactly one pauseCAPICluster call, with paused = p, as the
\* last call of the pass.
OnlyPauseCallIsLast(p) ==
    /\ Cardinality(CallsOf("pauseCAPICluster")) = 1
    /\ Len(calls) \in CallsOf("pauseCAPICluster")
    /\ calls[Len(calls)].paused = p

\* C5 as stated: when every relevant node's dispatch succeeds, the pass calls
\* pauseCAPICluster with false exactly once and after the last dispatch, never
\* with true, sets the status generation to the requested one and returns the
\* waiting error.
C5_AllSucceedAdvances ==
    ( Returned /\ LoopEntered /\ AllAssigned )
    => /\ OnlyPauseCallIsLast(FALSE)
       /\ result.status.CertificateRotationGeneration = Requested
       /\ result.err.kind = "waiting"

\* C5 amended: when every relevant node's dispatch succeeds, the pass calls
\* pauseCAPICluster with false exactly once and after the last dispatch, never
\* with true, and returns the waiting error; the status generation is the
\* requested one if that call succeeded and the one passed in if it failed.
C5_AllSucceedAdvancesIfUnpaused ==
    ( Returned /\ LoopEntered /\ AllAssigned )
    => /\ OnlyPauseCallIsLast(FALSE)
       /\ result.status.CertificateRotationGeneration =
            IF calls[Len(calls)].ok THEN Requested
            ELSE inStatus.CertificateRotationGeneration
       /\ result.err.kind = "waiting"
       /\ result.err # NoError

\* All three entries are relevant and dispatched with success.
C5_Witness ==
    /\ Returned
    /\ LoopEntered
    /\ RelevantNodes = {1, 2, 3}
    /\ AllAssigned
    /\ Called(PauseCall(FALSE, TRUE))

\* C6: shouldRotate is false without a rotation request, false when the
\* cluster is not initialized, and otherwise true exactly when the status
\* generation differs from the requested one, lower or higher.
C6_ShouldRotate ==
    /\ ~rotation.set => ~shouldRotate(controlPlane)
    /\ ~controlPlane.Status.Initialized => ~shouldRotate(controlPlane)
    /\ ( rotation.set /\ controlPlane.Status.Initialized )
       => ( shouldRotate(controlPlane)
            <=> controlPlane.Status.CertificateRotationGeneration # Requested )
    /\ Returned => ( shouldRotate(controlPlane) <=> initNode # "notCalled" )

\* A request below the applied generation opens the gate of a pass.
C6_Witness ==
    /\ pc = "loop"
    /\ rotation.set
    /\ Requested < controlPlane.Status.CertificateRotationGeneration
    /\ shouldRotate(controlPlane)

\* C7: once the persisted generation equals the requested one, a pass
\* dispatches nothing, calls pauseCAPICluster with neither value and returns
\* the status unchanged with a nil error.
C7_ConvergedPassIsNoOp ==
    ( /\ Returned
      /\ rotation.set
      /\ controlPlane.Status.CertificateRotationGeneration = Requested )
    => /\ calls = <<>>
       /\ initNode = "notCalled"
       /\ capiPaused = pausedAtStart
       /\ result.status = inStatus
       /\ result.err = NoError

\* A pass over an initialized cluster after its rotation was dispatched and
\* persisted.
C7_Witness ==
    /\ Returned
    /\ rotation.set
    /\ controlPlane.Status.Initialized
    /\ controlPlane.Status.CertificateRotationGeneration = Requested
    /\ \E i \in 1..Len(clusterPlan) : assignCount[i] >= 1

\* C8 as stated: over all passes for one generation no entry receives a
\* second assignAndCheckPlan call.
C8_OncePerGeneration ==
    \A i \in 1..Len(clusterPlan) : assignCount[i] <= 1

\* C8 amended: within one pass every entry receives at most one
\* assignAndCheckPlan call, the calls follow the inventory's order, and a pass
\* that reports the generation complete has called it exactly once for every
\* relevant entry.
C8_OncePerPass ==
    /\ \A k, l \in CallsOf("assignAndCheckPlan") :
          k < l => calls[k].node < calls[l].node
    /\ pc = "assigning" => idx \notin AssignedNodes
    /\ ( /\ Returned
         /\ result.status.CertificateRotationGeneration = Requested
         /\ inStatus.CertificateRotationGeneration # Requested )
       => \A i \in RelevantNodes :
             Cardinality({ k \in CallsOf("assignAndCheckPlan") : calls[k].node = i }) = 1

\* A pass re-run after a failure reports the generation complete, having
\* dispatched again to an entry an earlier pass had already dispatched to.
C8_Witness ==
    /\ Returned
    /\ result.status.CertificateRotationGeneration = Requested
    /\ inStatus.CertificateRotationGeneration # Requested
    /\ \E i \in 1..Len(clusterPlan) : assignCount[i] >= 2

\* C9: whenever a pass has set the pause flag, the flag is eventually set back
\* to false, provided passes keep being invoked and dispatch and pause calls
\* eventually succeed, however the rotation request evolves afterwards.
C9_PauseEventuallyReleased ==
    capiPaused ~> ~capiPaused

\* The pass returned because composing a plan failed before any dispatch,
\* with the pause flag held since an earlier pass.
ComposeFailedWhilePaused ==
    /\ Returned
    /\ pausedAtStart
    /\ \E i \in 1..Len(clusterPlan) : Called(ComposeCall(i, FALSE))
    /\ CallsOf("assignAndCheckPlan") = {}

\* C10 as stated: the pause flag held when a pass begins is released when the
\* pass returns because plan composition failed before any dispatch.
C10_ComposeFailureReleasesPause ==
    ComposeFailedWhilePaused => ~capiPaused

\* C10 amended: on that exit the pass calls pauseCAPICluster with neither
\* value and the flag is still true when the pass returns.
C10_ComposeFailureKeepsPause ==
    ComposeFailedWhilePaused
    => /\ capiPaused
       /\ CallsOf("pauseCAPICluster") = {}

\* A composition failure at the first relevant entry of a pass that began
\* with the flag held.
C10_Witness ==
    /\ ComposeFailedWhilePaused
    /\ result.err = ComposeError

\* C11: on a dispatch failure the pass attempts pauseCAPICluster(true) before
\* it returns; it returns the dispatch error when that call succeeds and the
\* pause error, in its place, only when that call fails.
C11_PauseBeforePropagating ==
    \A k \in CallsOf("assignAndCheckPlan") :
        ~calls[k].ok
        => /\ Returned
           /\ Len(calls) = k + 1
           /\ calls[k + 1].op = "pauseCAPICluster"
           /\ calls[k + 1].paused
           /\ result.err = IF calls[k + 1].ok THEN AssignError ELSE PauseError
           /\ AssignError # PauseError

\* The dispatch failed and the pause call failed too.
C11_Witness ==
    /\ Returned
    /\ SomeAssignFailed
    /\ Called(PauseCall(TRUE, FALSE))
    /\ result.err = PauseError

\* C12: a failure of the pause or unpause call is returned to the caller as a
\* hard error, which the waiting error is not.
C12_PauseFailureIsHardError ==
    Returned
    => \A k \in CallsOf("pauseCAPICluster") :
          ~calls[k].ok => result.err.kind = "error"

\* C13: when rotation is due but findInitNode reports no init node or an
\* empty join server, the pass composes and dispatches nothing, calls
\* pauseCAPICluster with neither value, returns the status unchanged with a
\* nil error, and rotation is still due on the next pass.
C13_NoInitNodeIsNoOp ==
    ( Returned /\ initNode \in { "notFound", "emptyJoinServer" } )
    => /\ shouldRotate(controlPlane)
       /\ calls = <<>>
       /\ capiPaused = pausedAtStart
       /\ result.status = inStatus
       /\ result.err = NoError
       /\ shouldRotate(PersistStatus(controlPlane, result.status))

\* An init node without a join server, in a pass that began with the flag held.
C13_Witness ==
    /\ Returned
    /\ initNode = "emptyJoinServer"
    /\ pausedAtStart
    /\ capiPaused
    /\ Len(clusterPlan) >= 1

\* C14: when composing a node's plan fails, the pass returns that error at
\* once: neither that node nor a later one is dispatched, pauseCAPICluster is
\* called with neither value and the status is returned unchanged.
C14_ComposeFailureReturnsAtOnce ==
    \A k \in CallsOf("rotateCertificatesPlan") :
        ~calls[k].ok
        => /\ Returned
           /\ Len(calls) = k
           /\ result.err = ComposeError
           /\ result.status = inStatus
           /\ CallsOf("pauseCAPICluster") = {}
           /\ capiPaused = pausedAtStart
           /\ \A i \in AssignedNodes : i < calls[k].node

\* Composing the second entry's plan failed after the first was dispatched.
C14_Witness ==
    /\ Returned
    /\ Called(AssignCall(1, TRUE))
    /\ Called(ComposeCall(2, FALSE))
    /\ Len(clusterPlan) = 3


\* C15: shouldRotateEntry answers true for every node, a node without a role
\* included, when the request names no service; when it names services, it
\* answers true exactly if one of them is in the union, over the node's
\* roles, of the services of the role: rke2-server, k3s-server, api-server,
\* kubelet, kube-proxy, auth-proxy for a worker; those and
\* controller-manager, scheduler, rke2-controller, k3s-controller, admin,
\* cloud-controller for a control plane; etcd, kubelet, rke2-server,
\* k3s-server for etcd.
C15_ShouldRotateEntry ==
    planOutput.op = "shouldRotateEntry"
    => LET services == planInput.rotation.Services
           worker == { "rke2-server", "k3s-server", "api-server", "kubelet",
                       "kube-proxy", "auth-proxy" }
           ofRole == [ role \in Roles |->
                         CASE role = "worker" -> worker
                           [] role = "controlplane" ->
                                worker \cup { "controller-manager", "scheduler",
                                              "rke2-controller", "k3s-controller",
                                              "admin", "cloud-controller" }
                           [] role = "etcd" ->
                                { "etcd", "kubelet", "rke2-server", "k3s-server" } ]
           relevant == UNION { ofRole[role] : role \in planInput.entry }
       IN  IF services = <<>> THEN planOutput.bool
           ELSE planOutput.bool <=> \E i \in 1..Len(services) : services[i] \in relevant

C15_Witness ==
    /\ planOutput.op = "shouldRotateEntry"
    /\ planInput.entry = { "etcd" }
    /\ planInput.rotation.Services = << "bogus", "etcd" >>
    /\ planOutput.bool


\* C17: for a request without an explicit service subset
\* rotationContainsService answers true, whatever the name; for a request
\* with a subset it answers true exactly if the name is one of the listed
\* services.
C17_RotationContainsService ==
    ( planOutput.op = "rotationContainsService" /\ planInput.rotation.set )
    => LET services == planInput.rotation.Services
       IN  IF services = <<>> THEN planOutput.bool
           ELSE planOutput.bool <=> planInput.service \in { services[i] : i \in 1..Len(services) }

C17_Witness ==
    /\ planOutput.op = "rotationContainsService"
    /\ planInput.rotation.set
    /\ planInput.rotation.Services = <<>>
    /\ planInput.service = "scheduler"
    /\ planOutput.bool


\* C18: the plan composed for a worker-only node, whatever services are
\* requested and whatever the runtime, is the base plan with exactly one
\* instruction added, "systemctl restart" of the agent unit: the files are
\* those of the base plan, so there is no rotation script, and no added
\* instruction runs the rotation, removes a file or restarts another unit.
C18_WorkerOnlyPlan ==
    ( /\ planOutput.op = "rotateCertificatesPlan"
      /\ planInput.entry = { "worker" }
      /\ ~planOutput.err )
    => LET base == planInput.ext.base.plan
           plan == planOutput.plan
           n == Len(base.Instructions)
           added == plan.Instructions[n + 1]
       IN  /\ plan.Files = base.Files
           /\ Len(plan.Instructions) = n + 1
           /\ \A i \in 1..n : plan.Instructions[i] = base.Instructions[i]
           /\ added.Command = "systemctl"
           /\ added.Args = << << "restart" >>,
                              << GetRuntimeAgentUnit(planInput.runtime) >> >>
           /\ \A i \in 1..Len(plan.Files) :
                  plan.Files[i].Path # rotateScriptPath(planInput.runtime)
           /\ added.Name # "rotate certificates"
           /\ added.Command # "rm"
           /\ added.Args[2] # << GetRuntimeServerUnit(planInput.runtime) >>

C18_Witness ==
    /\ planOutput.op = "rotateCertificatesPlan"
    /\ planInput.entry = { "worker" }
    /\ planInput.runtime = RuntimeRKE2
    /\ planInput.rotation.Services = <<>>
    /\ planInput.ext.manifestRemoval
    /\ Len(planInput.ext.base.plan.Instructions) = 1
    /\ ~planOutput.err
    /\ Len(planOutput.plan.Instructions) = 2


\* C19: the instructions a plan composed for a node that is not worker-only
\* adds to the base plan are, in this order: "rotate certificates", the
\* controller-manager removals if any, the scheduler removals if any, the
\* manifest removal of the policy if any, and the restart of the server
\* unit.  So every removal comes before the restart, the restart is the
\* last instruction, and there is exactly one restart.
C19_InstructionOrder ==
    ( /\ planOutput.op = "rotateCertificatesPlan"
      /\ planInput.entry # { "worker" }
      /\ ~planOutput.err )
    => LET n == Len(planInput.ext.base.plan.Instructions)
           all == planOutput.plan.Instructions
           added == SubSeq(all, n + 1, Len(all))
           stage(instruction) ==
               CASE instruction.Name = "rotate certificates" -> 1
                 [] instruction.Name \in
                        { "remove kube-controller-manager cert for regeneration",
                          "remove kube-controller-manager key for regeneration",
                          "remove kube-controller-manager static pod manifest" } -> 2
                 [] instruction.Name \in
                        { "remove kube-scheduler cert for regeneration",
                          "remove kube-scheduler key for regeneration",
                          "remove kube-scheduler static pod manifest" } -> 3
                 [] instruction = ManifestRemovalInstruction -> 4
                 [] instruction.Name = "restart" -> 5
                 [] OTHER -> 0
           last == added[Len(added)]
       IN  /\ Len(added) >= 2
           /\ \A i \in 1..Len(added) : stage(added[i]) # 0
           /\ \A i, j \in 1..Len(added) : i < j => stage(added[i]) <= stage(added[j])
           /\ Cardinality({ i \in 1..Len(added) : stage(added[i]) = 1 }) = 1
           /\ Cardinality({ i \in 1..Len(added) : stage(added[i]) = 5 }) = 1
           /\ \A i \in 1..Len(added) : added[i].Command = "rm" <=> stage(added[i]) \in 2..4
           /\ last = all[Len(all)]
           /\ last.Command = "systemctl"
           /\ last.Args = << << "restart" >>, << GetRuntimeServerUnit(planInput.runtime) >> >>
           /\ added[1].Command = "sh"

\* A plan with removals of all three kinds.
C19_Witness ==
    /\ planOutput.op = "rotateCertificatesPlan"
    /\ planInput.entry = { "controlplane", "etcd" }
    /\ ~planOutput.err
    /\ Len(planInput.ext.base.plan.Instructions) = 1
    /\ Len(planOutput.plan.Instructions) = 10
    /\ planOutput.plan.Instructions[9] = ManifestRemovalInstruction
    /\ planOutput.plan.Instructions[10].Name = "restart"


\* C20: a composed plan has the instruction deleting the controller-manager
\* certificate and the one deleting its key exactly if the node has the
\* control-plane role, the request names no service or names
\* controller-manager, the controller-manager arguments of the resolved
\* configuration give a non-empty certificate directory and give no TLS
\* certificate file; the two instructions are there together or not at all,
\* and with a TLS certificate file argument neither is.
C20_ControllerManagerRemovals ==
    ( planOutput.op = "rotateCertificatesPlan" /\ ~planOutput.err )
    => LET instructions == planOutput.plan.Instructions
           services == planInput.rotation.Services
           args == planInput.ext.base.config["kube-controller-manager-arg"]
           given(name) == { args[i][2] : i \in { j \in 1..Len(args) : args[j][1] = name } }
           has(name) == \E i \in 1..Len(instructions) :
                            /\ instructions[i].Name = name
                            /\ instructions[i].Command = "rm"
           cert == has("remove kube-controller-manager cert for regeneration")
           key == has("remove kube-controller-manager key for regeneration")
           due == /\ "controlplane" \in planInput.entry
                  /\ \/ services = <<>>
                     \/ \E i \in 1..Len(services) : services[i] = "controller-manager"
                  /\ given("cert-dir") \ { "" } # {}
                  /\ given("tls-cert-file") \ { "" } = {}
       IN  /\ cert <=> due
           /\ key <=> due
           /\ given("tls-cert-file") \ { "" } # {} => ~cert /\ ~key

\* Both instructions for a control-plane node, on distinct files of the
\* certificate directory.
C20_Witness ==
    /\ planOutput.op = "rotateCertificatesPlan"
    /\ planInput.entry = { "controlplane" }
    /\ planInput.rotation.Services = << "scheduler", "controller-manager" >>
    /\ planInput.runtime = RuntimeK3S
    /\ \E i \in 1..Len(planOutput.plan.Instructions) :
           /\ planOutput.plan.Instructions[i].Name =
                  "remove kube-controller-manager cert for regeneration"
           /\ planOutput.plan.Instructions[i].Args[2] =
                  << "/var/lib/rancher/tls", "/", "kube-controller-manager", ".crt" >>
           /\ planOutput.plan.Instructions[i + 1].Name =
                  "remove kube-controller-manager key for regeneration"
           /\ planOutput.plan.Instructions[i + 1].Args[2] =
                  << "/var/lib/rancher/tls", "/", "kube-controller-manager", ".key" >>


\* For each generation, the plans rotateCertificatesPlan composes for an
\* etcd-only entry and a request of that generation naming etcd alone: one
\* for each runtime, join server and answer of the collaborators without an
\* error.
EtcdOnlyPlans ==
    [ generation \in Generations |->
        { [ runtime |-> runtime,
            plan |-> rotateCertificatesPlan(runtime,
                         [ set |-> TRUE, Generation |-> generation,
                           Services |-> << "etcd" >> ],
                         { "etcd" }, joinServer, ext).plan ] :
            runtime \in Runtimes, joinServer \in JoinServers \ { "" },
            ext \in { e \in Collaborators : ~e.base.err } } ]

\* C16: in a pass for a request that names the service etcd alone, plans are
\* composed and dispatched for entries with the etcd role only, and a pass
\* that advances the status has dispatched to every one of them; an entry
\* that is only a worker is neither composed nor dispatched.  The plan
\* dispatched to an etcd-only entry, whatever the runtime and whatever the
\* collaborators answer, holds the rotation script as a file, the instruction
\* "rotate certificates", and the restart of the server unit as its last
\* instruction.
C16_EtcdOnlyRotation ==
    ( rotation.set /\ rotation.Services = << "etcd" >> )
    => LET etcdNodes == { i \in 1..Len(clusterPlan) : "etcd" \in clusterPlan[i] }
       IN  /\ ComposedNodes \subseteq etcdNodes
           /\ AssignedNodes \subseteq etcdNodes
           /\ \A i \in 1..Len(clusterPlan) :
                  clusterPlan[i] = { "worker" } => i \notin ComposedNodes \cup AssignedNodes
           /\ ( Returned /\ result.status.CertificateRotationGeneration
                               # inStatus.CertificateRotationGeneration )
              => AssignedNodes = etcdNodes
           /\ ( \E i \in AssignedNodes : clusterPlan[i] = { "etcd" } )
              => \A composed \in EtcdOnlyPlans[rotation.Generation] :
                     LET plan == composed.plan
                         last == plan.Instructions[Len(plan.Instructions)]
                     IN  /\ \E f \in 1..Len(plan.Files) :
                                /\ plan.Files[f].Path = rotateScriptPath(composed.runtime)
                                /\ plan.Files[f].Content = RotateScriptContent
                         /\ \E k \in 1..Len(plan.Instructions) :
                                /\ plan.Instructions[k].Name = "rotate certificates"
                                /\ plan.Instructions[k].Args[2] = rotateScriptPath(composed.runtime)
                         /\ last.Name = "restart"
                         /\ last.Command = "systemctl"
                         /\ last.Args = << << "restart" >>,
                                           << GetRuntimeServerUnit(composed.runtime) >> >>

\* A pass over an etcd-only entry and a worker-only entry that advanced the
\* status: it dispatched to the first and made no call for the second.
C16_Witness ==
    /\ Returned
    /\ rotation.set /\ rotation.Services = << "etcd" >>
    /\ clusterPlan = << { "etcd" }, { "worker" } >>
    /\ result.status.CertificateRotationGeneration = Requested
    /\ inStatus.CertificateRotationGeneration < Requested
    /\ Called(ComposeCall(1, TRUE)) /\ Called(AssignCall(1, TRUE))
    /\ ComposedNodes = { 1 } /\ AssignedNodes = { 1 }


\* C21: for a control-plane node, a request that names no service or names
\* scheduler, and scheduler arguments that give a certificate directory and
\* no TLS certificate file, the composed plan has one instruction deleting
\* the scheduler's certificate file in that directory and one deleting its
\* key file; the certificate file's name ends in .crt, the key's path is the
\* certificate's with .crt replaced by .key, and the two paths differ.
C21_SchedulerRemovals ==
    LET services == planInput.rotation.Services
        args == planInput.ext.base.config["kube-scheduler-arg"]
        given(name) == { args[i][2] : i \in { j \in 1..Len(args) : args[j][1] = name } }
        instructions == planOutput.plan.Instructions
        named(name) == { i \in 1..Len(instructions) :
                           instructions[i].Name = name /\ instructions[i].Command = "rm" }
        certs == named("remove kube-scheduler cert for regeneration")
        keys == named("remove kube-scheduler key for regeneration")
    IN  ( /\ planOutput.op = "rotateCertificatesPlan"
          /\ ~planOutput.err
          /\ "controlplane" \in planInput.entry
          /\ \/ services = <<>>
             \/ \E i \in 1..Len(services) : services[i] = "scheduler"
          /\ given("cert-dir") \ { "" } # {}
          /\ given("tls-cert-file") \ { "" } = {} )
        => /\ Cardinality(certs) = 1
           /\ Cardinality(keys) = 1
           /\ \A c \in certs, k \in keys :
                  LET certPath == instructions[c].Args[2]
                      keyPath == instructions[k].Args[2]
                  IN  /\ certPath[1] \in given("cert-dir")
                      /\ certPath[Len(certPath)] = ".crt"
                      /\ keyPath = ReplaceAll(certPath, ".crt", ".key")
                      /\ keyPath # certPath


\* C22: in any sequence of executions of the rotation script on a node, an
\* execution invokes "certificate rotate" exactly if the generation the node's
\* file holds when it begins (the empty string if there is no file) is not
\* the decimal form of the generation of the plan; the file holds what the
\* execution before left; an execution that runs to completion leaves the
\* file holding the plan's generation; so an execution for a generation does
\* not invoke "certificate rotate" if an earlier one for that generation ran
\* to completion and none for another generation did in between.
C22_RotateOncePerGeneration ==
    \A k \in 1..Len(runs) :
        /\ runs[k].markerAtStart = IF k = 1 THEN <<>> ELSE runs[k - 1].markerAtEnd
        /\ runs[k].rotated <=> runs[k].markerAtStart # FormatInt(runs[k].generation)
        /\ runs[k].completed => runs[k].markerAtEnd = FormatInt(runs[k].generation)
        /\ \A j \in 1..(k - 1) :
               ( /\ runs[j].completed
                 /\ runs[j].generation = runs[k].generation
                 /\ \A m \in (j + 1)..(k - 1) :
                        runs[m].completed => runs[m].generation = runs[k].generation )
               => ~runs[k].rotated

\* Generation 12 applied, a failed attempt at generation 1 that invoked the
\* rotation, and generation 12 again, which does not rotate.
C22_Witness ==
    /\ Len(runs) = 3
    /\ runs[1].generation = 12 /\ runs[1].completed /\ runs[1].rotated
    /\ runs[2].generation = 1 /\ ~runs[2].completed /\ runs[2].rotated
    /\ runs[3].generation = 12 /\ runs[3].completed /\ ~runs[3].rotated
    /\ node.generationFile = FileOf(<< "1", "2", "\n" >>)


\* C23: no step of a pass changes the control plane it was given, its
\* rotation request included, or the inventory; and on every exit the
\* returned status is the status the pass was called with in every field
\* but CertificateRotationGeneration.
C23_Frame ==
    [][ pc' # "idle"
        => /\ controlPlane'.RotateCertificates = controlPlane.RotateCertificates
           /\ controlPlane' = controlPlane
           /\ clusterPlan' = clusterPlan
           /\ pc' = "done"
              => result'.status =
                     [ inStatus' EXCEPT !.CertificateRotationGeneration =
                                            result'.status.CertificateRotationGeneration ] ]_vars

\* A pass over a full inventory that advanced the generation and returned
\* the other field as it was given.
C23_Witness ==
    /\ Returned
    /\ Len(clusterPlan) = MaxNodes
    /\ rotation.set /\ rotation.Services = <<>>
    /\ inStatus.Initialized
    /\ result.status.Initialized
    /\ inStatus.CertificateRotationGeneration # Requested
    /\ result.status.CertificateRotationGeneration = Requested


\* C24: for controller-manager and for scheduler alike, a composed plan has
\* the instruction removing the service's static pod manifest exactly if the
\* runtime is RKE2 and the plan has the instructions removing the service's
\* certificate and key; with K3s it has none; with RKE2 the instruction
\* comes right after the one removing the key, and it removes the service's
\* manifest in RKE2's pod-manifests directory.
C24_StaticPodManifestRemoval ==
    ( planOutput.op = "rotateCertificatesPlan" /\ ~planOutput.err )
    => LET instructions == planOutput.plan.Instructions
           at(name) == { i \in 1..Len(instructions) :
                           instructions[i].Name = name /\ instructions[i].Command = "rm" }
       IN  \A service \in { "kube-controller-manager", "kube-scheduler" } :
               LET certs == at(IF service = "kube-scheduler"
                               THEN "remove kube-scheduler cert for regeneration"
                               ELSE "remove kube-controller-manager cert for regeneration")
                   keys == at(IF service = "kube-scheduler"
                              THEN "remove kube-scheduler key for regeneration"
                              ELSE "remove kube-controller-manager key for regeneration")
                   manifests == at(IF service = "kube-scheduler"
                                   THEN "remove kube-scheduler static pod manifest"
                                   ELSE "remove kube-controller-manager static pod manifest")
                   path == IF service = "kube-scheduler"
                           THEN "/var/lib/rancher/rke2/agent/pod-manifests/kube-scheduler.yaml"
                           ELSE "/var/lib/rancher/rke2/agent/pod-manifests/kube-controller-manager.yaml"
               IN  /\ manifests # {}
                      <=> ( planInput.runtime = "rke2" /\ certs # {} /\ keys # {} )
                   /\ planInput.runtime = "k3s" => manifests = {}
                   /\ Cardinality(manifests) <= 1
                   /\ \A m \in manifests :
                          /\ m - 1 \in keys
                          /\ instructions[m].Args = << << "-f" >>, << path >> >>

\* An RKE2 control-plane plan with both manifests removed.
C24_Witness ==
    /\ planOutput.op = "rotateCertificatesPlan"
    /\ planInput.runtime = RuntimeRKE2
    /\ planInput.entry = { "controlplane", "worker" }
    /\ planInput.ext.base.plan.Instructions = <<>>
    /\ ~planInput.ext.manifestRemoval
    /\ Len(planOutput.plan.Instructions) = 8
    /\ planOutput.plan.Instructions[4].Name = "remove kube-controller-manager static pod manifest"
    /\ planOutput.plan.Instructions[7].Name = "remove kube-scheduler static pod manifest"


\* C25: the join server rotateCertificatesPlan hands to
\* generatePlanWithConfigFiles is "" for an entry that is a worker only,
\* whatever join server the pass found, and is the join server the pass
\* found for every other entry, whether or not the call then fails; the join
\* server the pass hands to assignAndCheckPlan is the one
\* generatePlanWithConfigFiles returned.
C25_JoinServer ==
    /\ planOutput.op \in { "rotateCertificatesPlan", "assignAndCheckPlan" }
       => /\ planInput.entry = { "worker" } => planOutput.baseJoinServer = ""
          /\ planInput.entry # { "worker" } => planOutput.baseJoinServer = planInput.joinServer
          /\ planOutput.joinedServer = planInput.ext.base.joinedServer
    /\ planOutput.op = "assignAndCheckPlan"
       => planOutput.assignedJoinServer = planInput.ext.base.joinedServer

\* A worker-only entry composed with a join server found: none is handed on,
\* and the one handed to assignAndCheckPlan is the collaborator's.
C25_Witness ==
    /\ planOutput.op = "assignAndCheckPlan"
    /\ planInput.entry = { "worker" }
    /\ planInput.joinServer # ""
    /\ planOutput.baseJoinServer = ""
    /\ planInput.ext.base.joinedServer # ""
    /\ planOutput.assignedJoinServer = planInput.ext.base.joinedServer


\* C26 as stated: a pass for a rotation that is due, with an init node found
\* and no relevant entry, dispatches nothing, calls pauseCAPICluster with
\* false, sets the status generation to the requested one and returns the
\* waiting error.
C26_NothingRelevantAdvances ==
    ( Returned /\ LoopEntered /\ RelevantNodes = {} )
    => /\ ComposedNodes = {} /\ AssignedNodes = {}
       /\ \E k \in CallsOf("pauseCAPICluster") : ~calls[k].paused
       /\ result.status.CertificateRotationGeneration = Requested
       /\ result.err.kind = "waiting"

\* C26 amended: such a pass composes and dispatches nothing and makes one
\* call, pauseCAPICluster with false; if the call succeeds the status
\* generation is the requested one and the error is the waiting error
\* "certificate rotation done"; if it fails the status generation is the one
\* passed in and the error is the waiting error "unpausing CAPI cluster".
C26_NothingRelevantUnpauses ==
    ( Returned /\ LoopEntered /\ RelevantNodes = {} )
    => /\ shouldRotate(controlPlane)
       /\ ComposedNodes = {} /\ AssignedNodes = {}
       /\ Len(calls) = 1
       /\ calls[1].op = "pauseCAPICluster" /\ ~calls[1].paused
       /\ IF calls[1].ok
          THEN /\ result.status.CertificateRotationGeneration = Requested
               /\ result.err = errWaiting("certificate rotation done")
               /\ ~capiPaused
          ELSE /\ result.status.CertificateRotationGeneration
                      = inStatus.CertificateRotationGeneration
               /\ result.err = errWaiting("unpausing CAPI cluster")
               /\ capiPaused = pausedAtStart

\* Entries there are, none of them relevant to the service requested, and the
\* status is advanced.
C26_Witness ==
    /\ Returned
    /\ LoopEntered
    /\ Len(clusterPlan) = 2
    /\ rotation.Services = << "bogus" >>
    /\ RelevantNodes = {}
    /\ calls = << PauseCall(FALSE, TRUE) >>
    /\ result.status.CertificateRotationGeneration = Requested
    /\ inStatus.CertificateRotationGeneration # Requested


\* C27: for an initialized cluster whose rotation request stays at
\* generation G, with passes invoked again and again, each returned status
\* persisted, an init node eventually found and every dispatch and unpause
\* call eventually succeeding, the status generation eventually is G with
\* the CAPI cluster not paused, and both stay so under all later passes.
C27_Convergence ==
    <>[]( /\ controlPlane.Status.CertificateRotationGeneration = Requested
          /\ ~capiPaused )

\* A later pass over a converged cluster, after a rotation in which a
\* dispatch was made more than once: the gate is closed and the CAPI cluster
\* is not paused.
C27_Witness ==
    /\ Returned
    /\ initNode = "notCalled"
    /\ Requested > 0
    /\ controlPlane.Status.CertificateRotationGeneration = Requested
    /\ result.status.CertificateRotationGeneration = Requested
    /\ ~capiPaused
    /\ \E i \in 1..Len(clusterPlan) : assignCount[i] >= 2

====
